---- MODULE Spec2Model ----
(***************************************************************************)
(* Model of main.py: the upload handler (upload_zip), the text handler     *)
(* (user), the streaming responder (send_to_gemini) and the reset handler  *)
(* (reset_app), run by handler threads over the process-wide dictionaries  *)
(* EXTRACTED_FILES and CHAT_SESSIONS.                                      *)
(*                                                                         *)
(* Python str values are TLA+ strings (Len, SubSeq and \o act on them);    *)
(* Python dicts that the code iterates are sequences of <<key, value>>     *)
(* pairs in insertion order.  The three emoji of the upload messages are   *)
(* written as the ASCII tags [U+1F4E6], [U+1F4C4] and [U+1F4DA].           *)
(***************************************************************************)
EXTENDS Integers, Sequences, FiniteSets, TLC

VARIABLES
    EXTRACTED_FILES,   \* dict: artifact name -> dict: file name -> content
    CHAT_SESSIONS,     \* dict: session key -> chat object (index into chats)
    chats,             \* the chat objects made by CLIENT.chats.create
    transcript,        \* value of chatbot_component (what the page shows)
    pc,                \* per thread: position in its handler
    chatbot,           \* per thread: the handler's local list
    session_key,       \* per thread: local of send_to_gemini
    found,             \* per thread: outcome of the test at line 280
    initial_contents,  \* per thread: local of send_to_gemini
    prompt,            \* per thread: local of send_to_gemini
    output_text,       \* per thread: local of send_to_gemini
    received,          \* per thread: parts of the response stream read so far
    snapshots,         \* per thread: the values yielded by the generator
    chat_ref,          \* per thread: the chat object of the call in flight
    files_seen,        \* per thread: the EXTRACTED_FILES read at lines 274-275
    seed_log,          \* keys whose seeding send_message was called since reset
    ops                \* handler invocations started

vars == <<EXTRACTED_FILES, CHAT_SESSIONS, chats, transcript, pc, chatbot,
          session_key, found, initial_contents, prompt, output_text, received,
          snapshots, chat_ref, files_seen, seed_log, ops>>

Threads == {1, 2}

MaxOps == 3
MaxParts == 2
MaxKeys == 2
MaxMembers == 3

-----------------------------------------------------------------------------
(* Strings *)

\* The characters of file names in code point order; Python compares str
\* values by code point.
Ascii == ",-./0123456789ABCDEFGHIJKLMNOPQRSTUVWXYZ_abcdefghijklmnopqrstuvwxyz"

UpperCase == "ABCDEFGHIJKLMNOPQRSTUVWXYZ"
LowerCase == "abcdefghijklmnopqrstuvwxyz"

CharAt(s, i) == SubSeq(s, i, i)

Ord(ch) == CHOOSE i \in 1..Len(Ascii) : CharAt(Ascii, i) = ch

LowerChar(ch) ==
    IF \E i \in 1..Len(UpperCase) : CharAt(UpperCase, i) = ch
    THEN CharAt(LowerCase, CHOOSE i \in 1..Len(UpperCase) : CharAt(UpperCase, i) = ch)
    ELSE ch

RECURSIVE Lower(_)
Lower(s) == IF Len(s) = 0 THEN "" ELSE LowerChar(CharAt(s, 1)) \o Lower(SubSeq(s, 2, Len(s)))

\* a < b for Python str
RECURSIVE StrLess(_, _)
StrLess(a, b) ==
    IF Len(b) = 0 THEN FALSE
    ELSE IF Len(a) = 0 THEN TRUE
    ELSE IF CharAt(a, 1) = CharAt(b, 1)
         THEN StrLess(SubSeq(a, 2, Len(a)), SubSeq(b, 2, Len(b)))
         ELSE Ord(CharAt(a, 1)) < Ord(CharAt(b, 1))

\* pat in s
Contains(pat, s) ==
    \E i \in 1..(Len(s) - Len(pat) + 1) : SubSeq(s, i, i + Len(pat) - 1) = pat

EndsWith(s, suffix) ==
    /\ Len(s) >= Len(suffix)
    /\ SubSeq(s, Len(s) - Len(suffix) + 1, Len(s)) = suffix

\* largest index of ch in s, 0 when absent
LastIndexOf(s, ch) ==
    IF \E i \in 1..Len(s) : CharAt(s, i) = ch
    THEN CHOOSE i \in 1..Len(s) :
            /\ CharAt(s, i) = ch
            /\ \A j \in (i + 1)..Len(s) : CharAt(s, j) # ch
    ELSE 0

Basename(path) == SubSeq(path, LastIndexOf(path, "/") + 1, Len(path))

\* os.path.splitext(p)[1]: from the last dot of the last component, unless
\* that component has only dots before it
SplitExt(p) ==
    LET sep == LastIndexOf(p, "/")
        dot == LastIndexOf(p, ".")
    IN  IF dot > sep /\ \E j \in (sep + 1)..(dot - 1) : CharAt(p, j) # "."
        THEN SubSeq(p, dot, Len(p))
        ELSE ""

RECURSIVE Join(_, _)
Join(strs, delim) ==
    IF Len(strs) = 0 THEN ""
    ELSE IF Len(strs) = 1 THEN strs[1]
    ELSE strs[1] \o delim \o Join(Tail(strs), delim)

Range(seq) == {seq[i] : i \in 1..Len(seq)}

Least(S) == CHOOSE x \in S : \A y \in S \ {x} : StrLess(x, y)

\* sorted(strs), duplicates kept out: the code sorts dict keys
RECURSIVE SortedSet(_)
SortedSet(S) == IF S = {} THEN <<>> ELSE <<Least(S)>> \o SortedSet(S \ {Least(S)})

Sorted(strs) == SortedSet(Range(strs))

-----------------------------------------------------------------------------
(* Python dicts in insertion order *)

DictKeys(d) == [i \in 1..Len(d) |-> d[i][1]]

DictHas(d, k) == \E i \in 1..Len(d) : d[i][1] = k

DictGet(d, k) == d[CHOOSE i \in 1..Len(d) : d[i][1] = k][2]

DictPutOnly(d, k, v) == <<<<k, v>>>>

DictPutMerged(d, k, v) ==
    IF DictHas(d, k)
    THEN [i \in 1..Len(d) |-> IF d[i][1] = k THEN <<k, d[i][2] \o v>> ELSE d[i]]
    ELSE Append(d, <<k, v>>)

\* d[k] = v: a present key keeps its place
DictPut(d, k, v) ==
    IF DictHas(d, k)
    THEN [i \in 1..Len(d) |-> IF d[i][1] = k THEN <<k, v>> ELSE d[i]]
    ELSE Append(d, <<k, v>>)

-----------------------------------------------------------------------------
(* Extractor *)

TEXT_EXTENSIONS ==
    {".bat", ".c", ".cfg", ".conf", ".cpp", ".cs", ".css", ".go", ".h", ".html",
     ".ini", ".java", ".js", ".json", ".jsx", ".md", ".php", ".ps1", ".py",
     ".rb", ".rs", ".sh", ".toml", ".ts", ".tsx", ".txt", ".xml", ".yaml", ".yml"}

\* An archive member: its name, its decoded text, and whether reading it
\* succeeds (ok) or raises (cause is then str(e)).
ZipInfo(filename, data) == [filename |-> filename, data |-> data, ok |-> TRUE, cause |-> ""]
ZipBad(filename, cause) == [filename |-> filename, data |-> "", ok |-> FALSE, cause |-> cause]

\* The loop of extract_text_from_zip over zip_ref.infolist()
RECURSIVE ExtractLoop(_, _)
ExtractLoop(infolist, text_contents) ==
    IF Len(infolist) = 0 THEN text_contents
    ELSE LET file_info == Head(infolist)
             file_ext == Lower(SplitExt(file_info.filename))
         IN  IF EndsWith(file_info.filename, "/")
             THEN ExtractLoop(Tail(infolist), text_contents)
             ELSE IF file_ext \in TEXT_EXTENSIONS
             THEN ExtractLoop(Tail(infolist),
                      DictPut(text_contents, file_info.filename,
                              IF file_info.ok THEN file_info.data
                              ELSE "Error extracting file: " \o file_info.cause))
             ELSE ExtractLoop(Tail(infolist), text_contents)

ExtractReadable(upload) ==
    ExtractLoop(SelectSeq(upload.infolist, LAMBDA file_info : file_info.ok), <<>>)

\* lines 59-90
extract_text_from_zip(upload) == ExtractLoop(upload.infolist, <<>>)

extract_text_from_single_file(upload) ==
    LET filename == Basename(upload.path)
        file_ext == Lower(SplitExt(filename))
    IN  IF file_ext \in TEXT_EXTENSIONS
        THEN <<<<filename, IF upload.ok THEN upload.data
                           ELSE "Error reading file: " \o upload.cause>>>>
        ELSE <<>>

\* An uploaded file: its path, and what is on disk there (the members of an
\* archive, or the text of a standalone file).
ZipUpload(path, infolist) ==
    [path |-> path, infolist |-> infolist, data |-> "", ok |-> TRUE, cause |-> ""]
FileUpload(path, data) ==
    [path |-> path, infolist |-> <<>>, data |-> data, ok |-> TRUE, cause |-> ""]

IsZip(upload) == Lower(SplitExt(Basename(upload.path))) = ".zip"

Extract(upload) ==
    IF IsZip(upload) THEN extract_text_from_zip(upload)
    ELSE extract_text_from_single_file(upload)

\* The uploads a user makes
ArchiveA1 == ZipUpload("up/a.zip", <<ZipInfo("src/", ""), ZipInfo("src/m.py", "v1"),
                                     ZipInfo("logo.png", "PNG")>>)
ArchiveA2 == ZipUpload("up/a.zip", <<ZipInfo("n.JS", "v2")>>)
ArchiveE  == ZipUpload("up/e.zip", <<ZipInfo("logo.png", "PNG")>>)
FileB     == FileUpload("up/b.c", "w")
FileR     == FileUpload("up/r.bin", "x")

UploadLists ==
    {<<ArchiveA1>>, <<ArchiveA2>>, <<ArchiveE>>, <<FileB>>,
     <<ArchiveA1, FileB>>, <<ArchiveA1, ArchiveE>>, <<FileB, FileR>>}

\* Standalone uploads whose names are kept as keys: each has a listed extension
KeyUploads ==
    {FileUpload("up/" \o name, data) : name \in {"a.c", "b.c", "a.c,b.c"},
                                       data \in {"1", "2"}}

\* More uploads for the upload handler on its own: a.zip again with nothing to
\* extract, an archive of three files, lists of three and lists that yield
\* nothing
ArchiveA0 == ZipUpload("up/a.zip", <<ZipInfo("logo.png", "PNG")>>)
ArchiveD  == ZipUpload("up/d.zip", <<ZipInfo("x.py", "1"), ZipInfo("y.md", "2"),
                                     ZipInfo("z.TXT", "3")>>)

IngestLists ==
    UploadLists \cup
    {<<ArchiveA0>>, <<FileR>>, <<ArchiveE, ArchiveD>>, <<ArchiveA0, FileB>>,
     <<FileR, ArchiveE>>, <<ArchiveA2, FileB, ArchiveD>>}

\* Members an archive may hold: files with a listed extension in either case,
\* each readable or failing to read, a directory with a listed extension, a
\* file with an extension not listed, and a file named by an extension alone
MemberNames == {"src/m.py", "N.JS", "y.Md", "k.c"}

Members ==
    {ZipInfo(name, "t") : name \in MemberNames}
    \cup {ZipBad(name, "Bad CRC-32") : name \in MemberNames}
    \cup {ZipInfo("docs.md/", ""), ZipInfo("logo.png", "PNG"), ZipInfo(".txt", "t")}

RECURSIVE Lists(_, _)
Lists(S, n) ==
    IF n = 0 THEN {<<>>}
    ELSE Lists(S, n - 1) \cup {Append(l, x) : l \in Lists(S, n - 1), x \in S}

\* The archives of up to MaxMembers members, uploaded as z.zip
Archives == {ZipUpload("up/z.zip", infolist) : infolist \in Lists(Members, MaxMembers)}

Uploads ==
    UNION {Range(files) : files \in UploadLists \cup IngestLists}
        \cup KeyUploads \cup Archives

\* What the extractor finds in each upload, computed once
Extracted == [upload \in Uploads |-> Extract(upload)]

\* Whether each upload's extension is .zip (lines 147-150, 183-186)
Zipped == [upload \in Uploads |-> IsZip(upload)]

-----------------------------------------------------------------------------
(* Upload Aggregator *)

ZIP_TAG == "[U+1F4E6] ZIP file"
FILE_TAG == "[U+1F4C4] File"
MULTI_TAG == "[U+1F4DA] Multiple "

DashList(names) == Join([i \in 1..Len(names) |-> "- " \o names[i]], "\n")

\* The loop of the multiple-file branch: the dict and the counters after it
RECURSIVE UploadLoop(_, _)
UploadLoop(files, acc) ==
    IF Len(files) = 0 THEN acc
    ELSE LET file == Head(files)
             filename == Basename(file.path)
             extracted_files == Extracted[file]
         IN  UploadLoop(Tail(files),
                 [store |-> IF Len(extracted_files) > 0
                            THEN DictPut(acc.store, filename, extracted_files)
                            ELSE acc.store,
                  total_files_extracted |->
                      acc.total_files_extracted + Len(extracted_files),
                  total_files_processed |-> acc.total_files_processed + 1,
                  file_types |-> acc.file_types
                                  \cup {IF Zipped[file] THEN "zip" ELSE "text"}])

MultiMessageStoredOnly(files, acc) ==
    LET file_types_str ==
            IF Cardinality(acc.file_types) > 1 THEN "files"
            ELSE IF "zip" \in acc.file_types THEN "ZIP files" ELSE "text files"
        file_list == DashList([i \in 1..Len(files) |-> Basename(files[i].path)])
        stored == Cardinality({i \in 1..Len(files) : Len(Extracted[files[i]]) > 0})
    IN  "<p>" \o MULTI_TAG \o file_types_str \o " uploaded ("
        \o ToString(stored) \o " files)</p><p>Extracted "
        \o ToString(acc.total_files_extracted)
        \o " text file(s) in total</p><p>Uploaded files:</p><pre>"
        \o file_list \o "</pre>"

\* lines 165-177
MultiMessage(files, acc) ==
    LET file_types_str ==
            IF Cardinality(acc.file_types) > 1 THEN "files"
            ELSE IF "zip" \in acc.file_types THEN "ZIP files" ELSE "text files"
        file_list == DashList([i \in 1..Len(files) |-> Basename(files[i].path)])
    IN  "<p>" \o MULTI_TAG \o file_types_str \o " uploaded ("
        \o ToString(acc.total_files_processed) \o " files)</p><p>Extracted "
        \o ToString(acc.total_files_extracted)
        \o " text file(s) in total</p><p>Uploaded files:</p><pre>"
        \o file_list \o "</pre>"

SingleMessage(file) ==
    LET filename == Basename(file.path)
        file_type_msg == IF Zipped[file] THEN ZIP_TAG ELSE FILE_TAG
        extracted_files == Extracted[file]
    IN  IF Len(extracted_files) = 0
        THEN "<p>" \o file_type_msg \o " uploaded: " \o filename
             \o ", but no text content was found or the file format is not supported.</p>"
        ELSE "<p>" \o file_type_msg \o " uploaded: " \o filename
             \o "</p><p>Extracted " \o ToString(Len(extracted_files))
             \o " text file(s):</p><pre>" \o DashList(DictKeys(extracted_files))
             \o "</pre>"

UploadResultPerFile(files, store, chat) ==
    LET acc == UploadLoop(files, [store |-> store, total_files_extracted |-> 0,
                                  total_files_processed |-> 0, file_types |-> {}])
    IN  [store |-> acc.store,
         chatbot |-> chat \o [i \in 1..Len(files) |-> <<"user", SingleMessage(files[i])>>]]

\* upload_zip(files, chatbot): the dict and the list it leaves
UploadResult(files, store, chat) ==
    IF Len(files) > 1
    THEN LET acc == UploadLoop(files, [store |-> store, total_files_extracted |-> 0,
                                       total_files_processed |-> 0, file_types |-> {}])
         IN  [store |-> acc.store,
              chatbot |-> Append(chat, <<"user", MultiMessage(files, acc)>>)]
    ELSE IF Len(files) = 1
    THEN LET file == files[1]
             extracted_files == Extracted[file]
         IN  [store |-> IF Len(extracted_files) > 0
                        THEN DictPut(store, Basename(file.path), extracted_files)
                        ELSE store,
              chatbot |-> Append(chat, <<"user", SingleMessage(file)>>)]
    ELSE [store |-> store, chatbot |-> chat]

-----------------------------------------------------------------------------
(* Session key, seeding message, reply parts *)

GUIDANCE == <<"assistant", "Please enter a message to start the conversation.">>
CANNED == <<"assistant", "What would you like to know about the code in this ZIP file?">>
WELCOME == <<"assistant", "App has been reset. You can start a new conversation or upload new files.">>
SEED_NOTE == "I've uploaded these code files for you to analyze. I'll ask questions about them next."

get_message_content(msg) == IF Len(msg) > 1 THEN msg[2] ELSE ""

UserMessages(chat) == SelectSeq(chat, LAMBDA msg : msg[1] = "user")

UPLOAD_MARKERS ==
    {ZIP_TAG \o " uploaded:", FILE_TAG \o " uploaded:", MULTI_TAG \o "files uploaded"}

\* line 269
IsUploadPrompt(text) == \E upload_msg \in UPLOAD_MARKERS : Contains(upload_msg, text)

SessionKeyUnsorted(files) ==
    IF Len(files) > 0 THEN Join(DictKeys(files), ",") ELSE "no_files"

\* lines 274-277
SessionKey(files) ==
    IF Len(files) > 0 THEN Join(Sorted(DictKeys(files)), ",") ELSE "no_files"

MimeType(filename) ==
    LET file_ext == Lower(SplitExt(filename))
    IN  IF file_ext = ".py" THEN "text/x-python"
        ELSE IF file_ext \in {".js", ".jsx"} THEN "text/javascript"
        ELSE IF file_ext \in {".ts", ".tsx"} THEN "text/typescript"
        ELSE IF file_ext = ".html" THEN "text/html"
        ELSE IF file_ext = ".css" THEN "text/css"
        ELSE IF file_ext \in {".json", ".jsonl"} THEN "application/json"
        ELSE IF file_ext \in {".xml", ".svg"} THEN "application/xml"
        ELSE "text/plain"

FilePart(filename, content) ==
    [data |-> "File: " \o filename \o "\n\n" \o content, mime_type |-> MimeType(filename)]

RECURSIVE FileParts(_)
FileParts(files) ==
    IF Len(files) = 0 THEN <<>>
    ELSE <<FilePart(files[1][1], files[1][2])>> \o FileParts(Tail(files))

\* lines 287-318: one part per file of every artifact, in dict order
RECURSIVE InitialParts(_)
InitialParts(store) ==
    IF Len(store) = 0 THEN <<>>
    ELSE FileParts(store[1][2]) \o InitialParts(Tail(store))

\* lines 287-324
InitialContents(store) ==
    IF Len(InitialParts(store)) > 0
    THEN Append(InitialParts(store), [data |-> SEED_NOTE, mime_type |-> ""])
    ELSE <<>>

\* What the response stream delivers: a part with text, or a part whose text
\* is None (a chunk with no candidates or no parts acts as the latter: line 338)
TextPart(text) == [kind |-> "text", text |-> text]
OtherPart == [kind |-> "other", text |-> ""]

\* The reply arrives in these increments; any of them may come empty or be
\* replaced by a part without text
Increments == <<"Hel", "lo, ", "world", "!">>

ReplyParts(k) ==
    {TextPart(Increments[((k - 1) % Len(Increments)) + 1]), TextPart(""), OtherPart}

HasText(part) == part.kind = "text"

UserTexts == {"", "hi"}

NewChat(over_files) == [over_files |-> over_files, seed_calls |-> 0, seeds |-> <<>>, turns |-> <<>>]

-----------------------------------------------------------------------------
(* State *)

Free(t) == pc[t] \in {"idle", "done", "raised"}

Init ==
    /\ EXTRACTED_FILES = <<>>
    /\ CHAT_SESSIONS = <<>>
    /\ chats = <<>>
    /\ transcript = <<>>
    /\ pc = [t \in Threads |-> "idle"]
    /\ chatbot = [t \in Threads |-> <<>>]
    /\ session_key = [t \in Threads |-> ""]
    /\ found = [t \in Threads |-> FALSE]
    /\ initial_contents = [t \in Threads |-> <<>>]
    /\ prompt = [t \in Threads |-> ""]
    /\ output_text = [t \in Threads |-> ""]
    /\ received = [t \in Threads |-> <<>>]
    /\ snapshots = [t \in Threads |-> <<>>]
    /\ chat_ref = [t \in Threads |-> 0]
    /\ files_seen = [t \in Threads |-> <<>>]
    /\ seed_log = <<>>
    /\ ops = 0

\* A handler call is taken by the first free worker thread
Takes(t) == Free(t) /\ \A u \in Threads : (Free(u) => u >= t)

\* A handler call starts on thread t with fresh locals
Enter(t, where, chat, text, key) ==
    /\ pc' = [pc EXCEPT ![t] = where]
    /\ chatbot' = [chatbot EXCEPT ![t] = chat]
    /\ prompt' = [prompt EXCEPT ![t] = text]
    /\ session_key' = [session_key EXCEPT ![t] = key]
    /\ found' = [found EXCEPT ![t] = FALSE]
    /\ initial_contents' = [initial_contents EXCEPT ![t] = <<>>]
    /\ output_text' = [output_text EXCEPT ![t] = ""]
    /\ received' = [received EXCEPT ![t] = <<>>]
    /\ snapshots' = [snapshots EXCEPT ![t] = <<>>]
    /\ chat_ref' = [chat_ref EXCEPT ![t] = 0]
    /\ ops' = ops + 1

Goto(t, where) == pc' = [pc EXCEPT ![t] = where]

\* The generator ends (returns or raises) on thread t: its frame is gone, the
\* list it worked on stays in chatbot[t]
Leave(t, where, chat) ==
    /\ pc' = [pc EXCEPT ![t] = where]
    /\ chatbot' = [chatbot EXCEPT ![t] = chat]
    /\ prompt' = [prompt EXCEPT ![t] = ""]
    /\ session_key' = [session_key EXCEPT ![t] = ""]
    /\ found' = [found EXCEPT ![t] = FALSE]
    /\ initial_contents' = [initial_contents EXCEPT ![t] = <<>>]
    /\ output_text' = [output_text EXCEPT ![t] = ""]
    /\ received' = [received EXCEPT ![t] = <<>>]
    /\ snapshots' = [snapshots EXCEPT ![t] = <<>>]
    /\ chat_ref' = [chat_ref EXCEPT ![t] = 0]

-----------------------------------------------------------------------------
(* upload_zip and user: handlers without a suspension point *)

UploadZip(files) ==
    /\ ops < MaxOps
    /\ LET r == UploadResult(files, EXTRACTED_FILES, transcript)
       IN  /\ EXTRACTED_FILES' = r.store
           /\ transcript' = r.chatbot
    /\ ops' = ops + 1
    /\ UNCHANGED <<CHAT_SESSIONS, chats, pc, chatbot, session_key, found,
                   initial_contents, prompt, output_text, received, snapshots,
                   chat_ref, files_seen, seed_log>>

\* user(text_prompt, chatbot), the first handler of a Send click or an Enter
\* key (lines 413-436); send_to_gemini follows it on the same event chain
User(t, text_prompt) ==
    /\ Takes(t)
    /\ ops < MaxOps
    /\ transcript' = IF text_prompt # "" THEN Append(transcript, <<"user", text_prompt>>)
                     ELSE transcript
    /\ Enter(t, "then", <<>>, "", "")
    /\ UNCHANGED <<EXTRACTED_FILES, CHAT_SESSIONS, chats, files_seen, seed_log>>

-----------------------------------------------------------------------------
(* send_to_gemini: a generator; what it yields is what its caller gets *)

\* lines 254-277: the early returns (nothing is yielded), or the prompt and
\* the session key
SendToGemini(t) ==
    /\ pc[t] = "then"
    /\ LET chat == transcript
           user_messages == UserMessages(chat)
           text == get_message_content(user_messages[Len(user_messages)])
       IN  IF Len(chat) = 0 \/ Len(user_messages) = 0
           THEN Leave(t, "done", Append(chat, GUIDANCE))
           ELSE IF IsUploadPrompt(text)
           THEN Leave(t, "done", Append(chat, CANNED))
           ELSE /\ pc' = [pc EXCEPT ![t] = "check"]
                /\ chatbot' = [chatbot EXCEPT ![t] = chat]
                /\ prompt' = [prompt EXCEPT ![t] = text]
                /\ session_key' = [session_key EXCEPT ![t] = SessionKey(EXTRACTED_FILES)]
                /\ UNCHANGED <<found, initial_contents, output_text, received,
                               snapshots, chat_ref>>
    /\ UNCHANGED <<EXTRACTED_FILES, CHAT_SESSIONS, chats, transcript, files_seen,
                   seed_log, ops>>

KeyPresentNever(key, sessions) == FALSE

\* line 280
KeyPresent(key, sessions) == DictHas(sessions, key)

CheckSession(t) ==
    /\ pc[t] = "check"
    /\ found' = [found EXCEPT ![t] = KeyPresent(session_key[t], CHAT_SESSIONS)]
    /\ Goto(t, IF found'[t] THEN "turn" ELSE "create")
    /\ UNCHANGED <<EXTRACTED_FILES, CHAT_SESSIONS, chats, transcript, chatbot,
                   session_key, initial_contents, prompt, output_text, received,
                   snapshots, chat_ref, files_seen, seed_log, ops>>

\* lines 282-284
CreateSession(t) ==
    /\ pc[t] = "create"
    /\ chats' = Append(chats, NewChat(Len(EXTRACTED_FILES) > 0))
    /\ CHAT_SESSIONS' = DictPut(CHAT_SESSIONS, session_key[t], Len(chats) + 1)
    /\ Goto(t, "build")
    /\ UNCHANGED <<EXTRACTED_FILES, transcript, chatbot, session_key, found,
                   initial_contents, prompt, output_text, received, snapshots,
                   chat_ref, files_seen, seed_log, ops>>

\* lines 287-324
BuildInitialContents(t) ==
    /\ pc[t] = "build"
    /\ initial_contents' = [initial_contents EXCEPT ![t] = InitialContents(EXTRACTED_FILES)]
    /\ Goto(t, IF Len(initial_contents'[t]) > 0 THEN "seed" ELSE "turn")
    /\ UNCHANGED <<EXTRACTED_FILES, CHAT_SESSIONS, chats, transcript, chatbot,
                   session_key, found, prompt, output_text, received, snapshots,
                   chat_ref, files_seen, seed_log, ops>>

\* line 326, the call: CHAT_SESSIONS[session_key] is looked up and the
\* message goes out
SendSeed(t) ==
    /\ pc[t] = "seed"
    /\ DictHas(CHAT_SESSIONS, session_key[t])
    /\ LET c == DictGet(CHAT_SESSIONS, session_key[t])
       IN  /\ chat_ref' = [chat_ref EXCEPT ![t] = c]
           /\ chats' = [chats EXCEPT ![c].seed_calls = @ + 1]
    /\ seed_log' = Append(seed_log, session_key[t])
    /\ Goto(t, "seeding")
    /\ UNCHANGED <<EXTRACTED_FILES, CHAT_SESSIONS, transcript, chatbot, session_key,
                   found, initial_contents, prompt, output_text, received,
                   snapshots, files_seen, ops>>

\* line 326, the lookup raises KeyError: the key is gone from CHAT_SESSIONS
SeedKeyError(t) ==
    /\ pc[t] = "seed"
    /\ ~DictHas(CHAT_SESSIONS, session_key[t])
    /\ Leave(t, "raised", chatbot[t])
    /\ UNCHANGED <<EXTRACTED_FILES, CHAT_SESSIONS, chats, transcript, files_seen,
                   seed_log, ops>>

\* line 326, the call returns: the chat holds the files
SeedReturn(t) ==
    /\ pc[t] = "seeding"
    /\ chats' = [chats EXCEPT ![chat_ref[t]].seeds = Append(@, initial_contents[t])]
    /\ Goto(t, "turn")
    /\ UNCHANGED <<EXTRACTED_FILES, CHAT_SESSIONS, transcript, chatbot, session_key,
                   found, initial_contents, prompt, output_text, received,
                   snapshots, chat_ref, files_seen, seed_log, ops>>

\* line 326, the call raises (network or model error); nothing catches it
SeedFail(t) ==
    /\ pc[t] = "seeding"
    /\ Leave(t, "raised", chatbot[t])
    /\ UNCHANGED <<EXTRACTED_FILES, CHAT_SESSIONS, chats, transcript, files_seen,
                   seed_log, ops>>

SendPromptNoPlaceholder(t) ==
    /\ pc[t] = "turn"
    /\ DictHas(CHAT_SESSIONS, session_key[t])
    /\ LET c == DictGet(CHAT_SESSIONS, session_key[t])
       IN  /\ chat_ref' = [chat_ref EXCEPT ![t] = c]
           /\ chats' = [chats EXCEPT ![c].turns = Append(@, prompt[t])]
    /\ Goto(t, "stream")
    /\ UNCHANGED <<EXTRACTED_FILES, CHAT_SESSIONS, transcript, chatbot, session_key,
                   found, initial_contents, prompt, output_text, received, snapshots,
                   files_seen, seed_log, ops>>

\* lines 330-333: the placeholder, then the prompt goes to CHAT_SESSIONS[session_key]
SendPrompt(t) ==
    /\ pc[t] = "turn"
    /\ DictHas(CHAT_SESSIONS, session_key[t])
    /\ chatbot' = [chatbot EXCEPT ![t] = Append(@, <<"assistant", "">>)]
    /\ LET c == DictGet(CHAT_SESSIONS, session_key[t])
       IN  /\ chat_ref' = [chat_ref EXCEPT ![t] = c]
           /\ chats' = [chats EXCEPT ![c].turns = Append(@, prompt[t])]
    /\ Goto(t, "stream")
    /\ UNCHANGED <<EXTRACTED_FILES, CHAT_SESSIONS, transcript, session_key, found,
                   initial_contents, prompt, output_text, received, snapshots,
                   files_seen, seed_log, ops>>

\* lines 330-333, the lookup raises KeyError after the placeholder is appended
PromptKeyError(t) ==
    /\ pc[t] = "turn"
    /\ ~DictHas(CHAT_SESSIONS, session_key[t])
    /\ Leave(t, "raised", Append(chatbot[t], <<"assistant", "">>))
    /\ UNCHANGED <<EXTRACTED_FILES, CHAT_SESSIONS, chats, transcript, files_seen,
                   seed_log, ops>>

AccumulateLatest(output, text) == text

\* line 342
Accumulate(output, text) == output \o text

\* lines 337-348: one part of the stream; a part with text is added to the
\* last entry and the list is yielded
StreamPart(t, part) ==
    /\ pc[t] = "stream"
    /\ Len(received[t]) < MaxParts
    /\ received' = [received EXCEPT ![t] = Append(@, part)]
    /\ IF HasText(part)
       THEN /\ output_text' = [output_text EXCEPT ![t] = Accumulate(@, part.text)]
            /\ chatbot' = [chatbot EXCEPT ![t][Len(chatbot[t])] =
                                             <<"assistant", output_text'[t]>>]
            /\ snapshots' = [snapshots EXCEPT ![t] = Append(@, chatbot'[t])]
            /\ transcript' = chatbot'[t]
       ELSE UNCHANGED <<output_text, chatbot, snapshots, transcript>>
    /\ UNCHANGED <<EXTRACTED_FILES, CHAT_SESSIONS, chats, pc, session_key, found,
                   initial_contents, prompt, chat_ref, files_seen, seed_log, ops>>

\* line 351: the stream is exhausted; the generator's return value goes nowhere
StreamEnd(t) ==
    /\ pc[t] = "stream"
    /\ Leave(t, "done", chatbot[t])
    /\ UNCHANGED <<EXTRACTED_FILES, CHAT_SESSIONS, chats, transcript, files_seen,
                   seed_log, ops>>

\* line 337: the stream raises (network or model error); nothing catches it
StreamFail(t) ==
    /\ pc[t] = "stream"
    /\ Leave(t, "raised", chatbot[t])
    /\ UNCHANGED <<EXTRACTED_FILES, CHAT_SESSIONS, chats, transcript, files_seen,
                   seed_log, ops>>

-----------------------------------------------------------------------------
(* reset_app: two assignments, no lock *)

\* line 367
ClearedFiles(files) == <<>>

ResetFiles(t) ==
    /\ Takes(t)
    /\ ops < MaxOps
    /\ Enter(t, "reset", transcript, "", "")
    /\ EXTRACTED_FILES' = ClearedFiles(EXTRACTED_FILES)
    /\ UNCHANGED <<CHAT_SESSIONS, chats, transcript, files_seen, seed_log>>

\* lines 368-371
ResetSessions(t) ==
    /\ pc[t] = "reset"
    /\ CHAT_SESSIONS' = <<>>
    /\ seed_log' = <<>>
    /\ transcript' = <<WELCOME>>
    /\ chatbot' = [chatbot EXCEPT ![t] = <<>>]
    /\ Goto(t, "idle")
    /\ UNCHANGED <<EXTRACTED_FILES, chats, session_key, found, initial_contents,
                   prompt, output_text, received, snapshots, chat_ref, files_seen,
                   ops>>

-----------------------------------------------------------------------------
(* Specifications *)

Step(t) ==
    \/ \E text_prompt \in UserTexts : User(t, text_prompt)
    \/ SendToGemini(t)
    \/ CheckSession(t)
    \/ CreateSession(t)
    \/ BuildInitialContents(t)
    \/ SendSeed(t)
    \/ SeedKeyError(t)
    \/ SeedReturn(t)
    \/ SeedFail(t)
    \/ SendPrompt(t)
    \/ PromptKeyError(t)
    \/ \E part \in ReplyParts(Len(received[t]) + 1) : StreamPart(t, part)
    \/ StreamEnd(t)
    \/ StreamFail(t)
    \/ ResetFiles(t)
    \/ ResetSessions(t)

Atomic == \E files \in UploadLists : UploadZip(files)

\* Handlers run on worker threads and interleave at every step
Next == (\E t \in Threads : Step(t)) \/ Atomic

Spec == Init /\ [][Next]_vars

\* One handler at a time, each run to its end
Alone(t) == \A u \in Threads \ {t} : Free(u)

SeqNext ==
    \/ \E t \in Threads :
        /\ Alone(t)
        /\ \/ \E text_prompt \in UserTexts : User(t, text_prompt)
           \/ SendToGemini(t)
           \/ CheckSession(t)
           \/ CreateSession(t)
           \/ BuildInitialContents(t)
           \/ SendSeed(t)
           \/ SeedReturn(t)
           \/ SeedFail(t)
           \/ SendPrompt(t)
           \/ \E part \in ReplyParts(Len(received[t]) + 1) : StreamPart(t, part)
           \/ StreamEnd(t)
           \/ StreamFail(t)
           \/ ResetFiles(t)
           \/ ResetSessions(t)
    \/ (\A u \in Threads : Free(u)) /\ Atomic

SeqSpec == Init /\ [][SeqNext]_vars

-----------------------------------------------------------------------------
(* The session key as a function of the file store *)

\* lines 274-277 applied to the store as it is
KeyDerive(t) ==
    /\ pc[t] \in {"idle", "check"}
    /\ pc' = [pc EXCEPT ![t] = "check"]
    /\ session_key' = [session_key EXCEPT ![t] = SessionKey(EXTRACTED_FILES)]
    /\ files_seen' = [files_seen EXCEPT ![t] = EXTRACTED_FILES]
    /\ UNCHANGED <<EXTRACTED_FILES, CHAT_SESSIONS, chats, transcript, chatbot, found,
                   initial_contents, prompt, output_text, received, snapshots,
                   chat_ref, seed_log, ops>>

\* upload_zip of one file, as far as the store goes, up to MaxKeys artifacts
KeyUpload(upload) ==
    /\ EXTRACTED_FILES' = UploadResult(<<upload>>, EXTRACTED_FILES, <<>>).store
    /\ Len(EXTRACTED_FILES') <= MaxKeys
    /\ UNCHANGED <<CHAT_SESSIONS, chats, transcript, pc, chatbot, session_key, found,
                   initial_contents, prompt, output_text, received, snapshots,
                   chat_ref, files_seen, seed_log, ops>>

\* line 367
KeyReset ==
    /\ EXTRACTED_FILES' = ClearedFiles(EXTRACTED_FILES)
    /\ UNCHANGED <<CHAT_SESSIONS, chats, transcript, pc, chatbot, session_key, found,
                   initial_contents, prompt, output_text, received, snapshots,
                   chat_ref, files_seen, seed_log, ops>>

KeyNext ==
    \/ \E t \in Threads : KeyDerive(t)
    \/ \E upload \in KeyUploads : KeyUpload(upload)
    \/ KeyReset

KeySpec == Init /\ [][KeyNext]_vars

-----------------------------------------------------------------------------
(* The upload handler on its own *)

IngestNext == \E files \in IngestLists : UploadZip(files)

IngestSpec == Init /\ [][IngestNext]_vars

-----------------------------------------------------------------------------
(* The extractor on archives of every make-up: one upload on a fresh process *)

ZipNext == \E archive \in Archives : (ops = 0 /\ UploadZip(<<archive>>))

ZipSpec == Init /\ [][ZipNext]_vars

-----------------------------------------------------------------------------
(* Claims *)

AllFree == \A t \in Threads : Free(t)

\* C1: between two resets at most one seeding message is sent for a session
\* key, whatever the interleaving of send_to_gemini calls.
C1_SeedAtMostOncePerKey ==
    \A i, j \in 1..Len(seed_log) : i # j => seed_log[i] # seed_log[j]

\* C2: a prompt is never submitted (send_message_stream) to a chat created
\* over a non-empty file store before a seeding send_message on that chat has
\* returned.
C2_SeedBeforeFirstTurn ==
    [][\A t \in Threads :
          (pc[t] = "turn" /\ pc'[t] = "stream")
              => (chats[chat_ref'[t]].over_files
                    => Len(chats[chat_ref'[t]].seeds) >= 1)]_vars

\* C3: every key in CHAT_SESSIONS whose chat was created over a non-empty
\* file store has had its seeding message delivered; stated for the states
\* in which no handler is running, which include those after a seeding send
\* that raised.
C3_StoredSessionsAreSeeded ==
    AllFree =>
        \A i \in 1..Len(CHAT_SESSIONS) :
            chats[CHAT_SESSIONS[i][2]].over_files
                => Len(chats[CHAT_SESSIONS[i][2]].seeds) >= 1

\* C4: with one handler at a time, a send_to_gemini call whose key is already
\* in CHAT_SESSIONS goes on to the turn without creating a chat, replacing the
\* entry or sending a seeding message, and submits only the prompt to the
\* stored chat.
C4_ExistingSessionReused ==
    [][\A t \in Threads :
          /\ (pc[t] = "check" /\ DictHas(CHAT_SESSIONS, session_key[t]))
                => /\ pc'[t] = "turn"
                   /\ CHAT_SESSIONS' = CHAT_SESSIONS
                   /\ chats' = chats
                   /\ seed_log' = seed_log
          /\ (pc[t] = "turn" /\ found[t])
                => /\ pc'[t] = "stream"
                   /\ CHAT_SESSIONS' = CHAT_SESSIONS
                   /\ seed_log' = seed_log
                   /\ chats' = [chats EXCEPT
                                  ![DictGet(CHAT_SESSIONS, session_key[t])].turns =
                                      Append(@, prompt[t])]
          /\ (pc[t] = "stream" /\ found[t])
                => /\ CHAT_SESSIONS' = CHAT_SESSIONS
                   /\ chats' = chats
                   /\ seed_log' = seed_log]_vars

\* C4 witness: a call that found its key is streaming the reply of the stored
\* chat, which has taken an earlier turn.
C4_Witness ==
    \E t \in Threads :
        /\ pc[t] = "stream"
        /\ found[t]
        /\ Len(chats[chat_ref[t]].turns) = 2

\* The steps that read EXTRACTED_FILES or CHAT_SESSIONS
Observes(u) ==
    \/ pc[u] = "then" /\ pc'[u] = "check"
    \/ pc[u] \in {"check", "create", "build", "seed", "turn"} /\ pc'[u] # pc[u]
    \/ EXTRACTED_FILES' # EXTRACTED_FILES /\ pc' = pc

\* C5: reset is atomic: while a reset has cleared EXTRACTED_FILES and not yet
\* CHAT_SESSIONS, no upload and no send_to_gemini step reads or writes the
\* two dictionaries.
C5_ResetIsAtomic ==
    [][\A t \in Threads :
          (pc[t] = "reset" /\ Len(CHAT_SESSIONS) > 0)
              => \A u \in Threads \ {t} : ~Observes(u)]_vars

\* C6: whatever the state and the transcript it is called with, reset_app
\* returns the one welcome entry and leaves EXTRACTED_FILES and CHAT_SESSIONS
\* empty.
C6_ResetEmptiesBoth ==
    [][\A t \in Threads :
          (pc[t] = "reset" /\ pc'[t] = "idle")
              => /\ transcript' = <<WELCOME>>
                 /\ Len(transcript') = 1
                 /\ transcript'[1][1] = "assistant"
                 /\ EXTRACTED_FILES' = <<>>
                 /\ CHAT_SESSIONS' = <<>>]_vars

KeySet(store) == Range(DictKeys(store))

Derived(t) == pc[t] = "check"

HasComma(name) == Contains(",", name)

TextsOf(parts) == SelectSeq(parts, HasText)

RECURSIVE Concat(_)
Concat(parts) == IF Len(parts) = 0 THEN "" ELSE parts[1].text \o Concat(Tail(parts))

LastContent(chat) == chat[Len(chat)][2]

\* C8 as stated: one snapshot per text increment, the k-th ending in the
\* assistant entry c1+...+ck, and each snapshot a strict extension of the
\* one before it.
C8_SnapshotsStrictlyGrow ==
    \A t \in Threads :
        pc[t] = "stream" =>
            /\ Len(snapshots[t]) = Len(TextsOf(received[t]))
            /\ \A k \in 2..Len(snapshots[t]) :
                  Len(LastContent(snapshots[t][k])) > Len(LastContent(snapshots[t][k - 1]))

\* C8 amended: for the text increments c1..cn read so far there are exactly n
\* snapshots; the k-th is the transcript with its last entry the assistant
\* entry c1+...+ck, which is the previous content followed by ck (longer when
\* ck is not empty); parts without text give no snapshot and change nothing.
C8_SnapshotsFollowIncrements ==
    \A t \in Threads :
        pc[t] = "stream" =>
            LET texts == TextsOf(received[t])
                n == Len(texts)
            IN  /\ Len(snapshots[t]) = n
                /\ output_text[t] = Concat(texts)
                /\ LastContent(chatbot[t]) = Concat(texts)
                /\ \A k \in 1..n :
                      LET snap == snapshots[t][k]
                          before == IF k = 1 THEN "" ELSE LastContent(snapshots[t][k - 1])
                      IN  /\ Len(snap) = Len(chatbot[t])
                          /\ SubSeq(snap, 1, Len(snap) - 1)
                                = SubSeq(chatbot[t], 1, Len(chatbot[t]) - 1)
                          /\ snap[Len(snap)] = <<"assistant", Concat(SubSeq(texts, 1, k))>>
                          /\ LastContent(snap) = before \o texts[k].text
                          /\ texts[k].text # "" => Len(LastContent(snap)) > Len(before)

\* C8 witness: two text increments were read and two snapshots yielded, the
\* second holding both increments.
C8_Witness ==
    \E t \in Threads :
        /\ pc[t] = "stream"
        /\ Len(snapshots[t]) = 2
        /\ LastContent(snapshots[t][1]) = "Hel"
        /\ LastContent(snapshots[t][2]) = "Hello, "

\* C9: send_to_gemini called with an empty transcript gives its caller the
\* transcript of the one guidance entry (and calls no model).
C9_GuidanceReachesCaller ==
    [][\A t \in Threads :
          (pc[t] = "then" /\ pc'[t] # "then" /\ Len(transcript) = 0)
              => /\ pc'[t] = "done"
                 /\ chats' = chats
                 /\ transcript' = <<GUIDANCE>>]_vars

\* The summary entry of every upload action
UploadSummaries == {UploadResult(files, <<>>, <<>>).chatbot[1][2] : files \in UploadLists}

\* C10: when the most recent user entry is the summary of an upload, whatever
\* the number and kinds of the uploaded files, send_to_gemini appends the
\* canned question, reads and creates no chat, and calls no model.
C10_UploadSummaryIsNoQuestion ==
    [][\A t \in Threads :
          (/\ pc[t] = "then" /\ pc'[t] # "then"
           /\ Len(UserMessages(transcript)) > 0
           /\ UserMessages(transcript)[Len(UserMessages(transcript))][2] \in UploadSummaries)
              => /\ pc'[t] = "done"
                 /\ chatbot'[t] = Append(transcript, CANNED)
                 /\ chats' = chats
                 /\ CHAT_SESSIONS' = CHAT_SESSIONS]_vars

Named(files, name) == {i \in 1..Len(files) : Basename(files[i].path) = name}

\* Those of them in which the extractor finds text
Yielding(files, name) == {i \in Named(files, name) : Len(Extract(files[i])) > 0}

Last(S) == CHOOSE i \in S : \A j \in S : j <= i

Names(files) == {Basename(files[i].path) : i \in 1..Len(files)}

\* C12 as stated: after an upload of a file whose name is already a key of
\* EXTRACTED_FILES, the value under that name is exactly what was extracted
\* from the new file, and the values under other names are unchanged.
C12_ReingestReplaces ==
    [][\A files \in IngestLists :
          UploadZip(files) =>
              /\ \A name \in Names(files) \cap KeySet(EXTRACTED_FILES) :
                    /\ DictHas(EXTRACTED_FILES', name)
                    /\ DictGet(EXTRACTED_FILES', name)
                          = Extract(files[Last(Named(files, name))])
              /\ \A name \in KeySet(EXTRACTED_FILES) \ Names(files) :
                    /\ DictHas(EXTRACTED_FILES', name)
                    /\ DictGet(EXTRACTED_FILES', name) = DictGet(EXTRACTED_FILES, name)]_vars

\* C12 amended: after an upload, the value under the name of an uploaded file
\* in which text was found is exactly what was extracted from it (from the
\* last such file of that name), nothing of the earlier value surviving; a
\* name whose uploaded files yield nothing keeps the value it had, as do the
\* names not uploaded; no other name appears.
C12_ReingestReplacesWhenNonEmpty ==
    [][\A files \in IngestLists :
          UploadZip(files) =>
              /\ \A name \in Names(files) :
                    IF Yielding(files, name) # {}
                    THEN /\ DictHas(EXTRACTED_FILES', name)
                         /\ DictGet(EXTRACTED_FILES', name)
                               = Extract(files[Last(Yielding(files, name))])
                    ELSE /\ DictHas(EXTRACTED_FILES', name) = DictHas(EXTRACTED_FILES, name)
                         /\ DictHas(EXTRACTED_FILES, name)
                               => DictGet(EXTRACTED_FILES', name)
                                    = DictGet(EXTRACTED_FILES, name)
              /\ \A name \in KeySet(EXTRACTED_FILES) \ Names(files) :
                    /\ DictHas(EXTRACTED_FILES', name)
                    /\ DictGet(EXTRACTED_FILES', name) = DictGet(EXTRACTED_FILES, name)
              /\ KeySet(EXTRACTED_FILES') \subseteq KeySet(EXTRACTED_FILES) \cup Names(files)
              /\ \A i, j \in 1..Len(EXTRACTED_FILES') :
                    EXTRACTED_FILES'[i][1] = EXTRACTED_FILES'[j][1] => i = j]_vars

\* C12 witness: a.zip was uploaded with src/m.py, b.c was uploaded, and a.zip
\* was uploaded again with n.JS only: the store holds n.JS under a.zip, and
\* b.c as it was.
C12_Witness ==
    /\ Len(transcript) = 3
    /\ Contains("- src/m.py", transcript[1][2])
    /\ Contains("- n.JS", transcript[3][2])
    /\ EXTRACTED_FILES = <<<<"a.zip", <<<<"n.JS", "v2">>>>>>, <<"b.c", <<<<"b.c", "w">>>>>>>>

RECURSIVE TotalExtracted(_)
TotalExtracted(files) ==
    IF Len(files) = 0 THEN 0 ELSE Len(Extract(Head(files))) + TotalExtracted(Tail(files))

Passing(archive) ==
    {i \in 1..Len(archive.infolist) :
        /\ ~EndsWith(archive.infolist[i].filename, "/")
        /\ Lower(SplitExt(archive.infolist[i].filename)) \in TEXT_EXTENSIONS}

\* What is stored under z.zip
Stored(store) == IF DictHas(store, "z.zip") THEN DictGet(store, "z.zip") ELSE <<>>

\* C14: for any archive, the keys of the extracted file set are exactly the
\* names of the members that are no directory and whose extension, compared
\* without regard to case, is on the list; a member that passes is kept even
\* when reading it fails, its content then the diagnostic string.  Stated of
\* every archive whose extraction is the one the upload has stored.
C14_ExtractedKeysAreAllowListed ==
    ops = 1 =>
        \A archive \in Archives :
            Extracted[archive] = Stored(EXTRACTED_FILES) =>
                LET infolist == archive.infolist
                    extracted == Stored(EXTRACTED_FILES)
                IN  /\ KeySet(extracted) = {infolist[i].filename : i \in Passing(archive)}
                    /\ Len(extracted) = Cardinality(KeySet(extracted))
                    /\ \A i \in Passing(archive) :
                          (\A j \in Passing(archive) :
                              infolist[j].filename = infolist[i].filename => j <= i)
                              => DictGet(extracted, infolist[i].filename)
                                   = IF infolist[i].ok THEN infolist[i].data
                                     ELSE "Error extracting file: " \o infolist[i].cause

\* C14 witness: an archive was uploaded whose extraction holds N.JS, listed
\* in lower case only, and k.c, which failed to read, and nothing else.
C14_Witness ==
    /\ ops = 1
    /\ EXTRACTED_FILES = <<<<"z.zip", <<<<"N.JS", "t">>,
                                       <<"k.c", "Error extracting file: Bad CRC-32">>>>>>>>

\* The entries the call in flight on thread t was given, with one handler at
\* a time: the page's transcript, less the entry of this turn once a snapshot
\* has put it there
Given(t) ==
    IF Len(snapshots[t]) = 0 THEN transcript
    ELSE SubSeq(transcript, 1, Len(transcript) - 1)

\* C15 as stated: when the stream of send_to_gemini raises, the call ends by
\* raising and its list holds the entries it was given followed by the empty
\* assistant placeholder.
C15_FailureLeavesPlaceholder ==
    [][\A t \in Threads :
          (pc[t] = "stream" /\ pc'[t] \notin {"stream", "done"}) =>
              /\ pc'[t] = "raised"
              /\ chatbot'[t] = Append(Given(t), <<"assistant", "">>)]_vars

\* C15 amended: when the stream raises, the call ends by raising, nothing
\* more is surfaced, and its list holds the entries it was given followed by
\* the one assistant entry of this turn, which holds the text accumulated so
\* far: the empty placeholder when no text had arrived.
C15_FailureLeavesTurnEntry ==
    [][\A t \in Threads :
          (pc[t] = "stream" /\ pc'[t] \notin {"stream", "done"}) =>
              /\ pc'[t] = "raised"
              /\ transcript' = transcript
              /\ chats' = chats
              /\ chatbot'[t] = Append(Given(t),
                                      <<"assistant", Concat(TextsOf(received[t]))>>)
              /\ Len(TextsOf(received[t])) = 0
                    => chatbot'[t][Len(chatbot'[t])] = <<"assistant", "">>]_vars

\* C15 witness: a call has raised before any text arrived, leaving the
\* question followed by the placeholder.
C15_Witness ==
    \E t \in Threads :
        /\ pc[t] = "raised"
        /\ chatbot[t] = <<<<"user", "hi">>, <<"assistant", "">>>>

\* A step of upload_zip: the one handler that runs on no worker position
UploadStep == pc' = pc /\ ops' = ops + 1

\* The first step of reset_app on some thread
ResetStep == \E t \in Threads : pc[t] # "reset" /\ pc'[t] = "reset"

\* C16: EXTRACTED_FILES is changed by upload_zip and reset_app only: the
\* steps of user and send_to_gemini, chat creation and seeding included,
\* leave it as it is; upload_zip removes no name from it; reset_app alone
\* empties it.
C16_OnlyUploadAndResetChangeFiles ==
    [][/\ EXTRACTED_FILES' # EXTRACTED_FILES => (UploadStep \/ ResetStep)
       /\ UploadStep => /\ KeySet(EXTRACTED_FILES) \subseteq KeySet(EXTRACTED_FILES')
                        /\ Len(EXTRACTED_FILES') >= Len(EXTRACTED_FILES)
       /\ ResetStep => EXTRACTED_FILES' = <<>>
       /\ (Len(EXTRACTED_FILES) > 0 /\ Len(EXTRACTED_FILES') = 0) => ResetStep]_vars

\* C16 witness: a call of send_to_gemini has created and seeded a chat and is
\* streaming while the store holds the two names uploaded before and after
\* the call began.
C16_Witness ==
    \E t \in Threads :
        /\ pc[t] = "stream"
        /\ Len(chats[chat_ref[t]].seeds) = 1
        /\ DictKeys(EXTRACTED_FILES) = <<"a.zip", "b.c">>
        /\ session_key[t] = "a.zip"

\* The (artifact, file) pairs of a store, in dict order
RECURSIVE Pairs(_)
Pairs(store) ==
    IF Len(store) = 0 THEN <<>>
    ELSE [i \in 1..Len(store[1][2]) |-> <<store[1][1], store[1][2][i]>>]
         \o Pairs(Tail(store))

\* message is one part per pair of the store, each the file under its header,
\* followed by the note
SeedsStore(message, store) ==
    LET pairs == Pairs(store)
    IN  /\ Len(message) = Len(pairs) + 1
        /\ \A i \in 1..Len(pairs) :
              message[i].data = "File: " \o pairs[i][2][1] \o "\n\n" \o pairs[i][2][2]
        /\ message[Len(message)].data = SEED_NOTE

\* C17: a call of send_to_gemini that has created a chat sends one seeding
\* message if and only if EXTRACTED_FILES is not empty when the call reads it
\* for the new chat (line 288); the message is one part per (artifact, file)
\* pair of EXTRACTED_FILES followed by the note; when EXTRACTED_FILES is empty
\* the first message the chat receives is the prompt.
C17_SeedsIffFilesAtCreation ==
    [][\A t \in Threads :
          /\ (pc[t] = "build" /\ pc'[t] # "build") =>
                /\ pc'[t] = (IF Len(EXTRACTED_FILES) > 0 THEN "seed" ELSE "turn")
                /\ Len(EXTRACTED_FILES) > 0
                      => SeedsStore(initial_contents'[t], EXTRACTED_FILES)
          /\ (pc[t] = "seed" /\ pc'[t] # "seed") =>
                /\ pc'[t] = "seeding"
                /\ chats'[chat_ref'[t]].seed_calls = 1
          /\ (pc[t] = "turn" /\ pc'[t] # "turn" /\ ~found[t]
                 /\ Len(initial_contents[t]) = 0) =>
                /\ pc'[t] = "stream"
                /\ chats[chat_ref'[t]].seed_calls = 0
                /\ chats'[chat_ref'[t]].turns[1] = prompt[t]]_vars

\* C18: whatever reset_app does meanwhile, the lookups of
\* CHAT_SESSIONS[session_key] that send_to_gemini makes to seed the chat
\* (line 326) and to submit the prompt (line 333) find the key, and the
\* message goes out.
C18_LookupSurvivesReset ==
    [][\A t \in Threads :
          (pc[t] \in {"seed", "turn"} /\ pc'[t] # pc[t]) =>
              /\ DictHas(CHAT_SESSIONS, session_key[t])
              /\ pc'[t] = (IF pc[t] = "seed" THEN "seeding" ELSE "stream")
              /\ chat_ref'[t] = DictGet(CHAT_SESSIONS, session_key[t])]_vars

\* The number of prompts submitted to the chats of a session store
RECURSIVE Submitted(_)
Submitted(sessions) ==
    IF Len(sessions) = 0 THEN 0
    ELSE Len(chats[sessions[1][2]].turns) + Submitted(Tail(sessions))

\* C19: with one handler at a time, each user entry of the transcript is
\* submitted as a prompt at most once: the chats have been sent no more
\* prompts than the transcript has user entries, so a send_to_gemini call
\* that follows user() with empty text, the last user entry being answered
\* already, submits nothing.
C19_EachEntrySubmittedOnce ==
    Submitted(CHAT_SESSIONS) <= Len(UserMessages(transcript))

\* C20: when no handler is running, the files delivered in the seeding
\* message of the chat stored under the key of the present EXTRACTED_FILES are
\* the present contents of EXTRACTED_FILES, also after a name was uploaded
\* again with other contents.
C20_SeededFilesAreCurrent ==
    (AllFree /\ DictHas(CHAT_SESSIONS, SessionKey(EXTRACTED_FILES))) =>
        LET chat == chats[DictGet(CHAT_SESSIONS, SessionKey(EXTRACTED_FILES))]
        IN  Len(chat.seeds) >= 1
                => SeedsStore(chat.seeds[Len(chat.seeds)], EXTRACTED_FILES)

====
